---- MODULE Spec2Model ----
(***************************************************************************)
(* geoipupdate: one run of main() -- fetch the client address, then for    *)
(* each product id look the file name up, poll /app/update_secure with the *)
(* evolving digest, and publish the last decompressed payload through a    *)
(* ".tmp" staging file and a rename.                                       *)
(*                                                                         *)
(* Strings and byte slices are sequences of one-symbol strings.  The two   *)
(* gzip magic bytes 0x1f 0x8b are the symbols "1f" and "8b".               *)
(***************************************************************************)
EXTENDS Integers, Sequences, FiniteSets, TLC

VARIABLES
    ids,           \* the product ids of the productids flag, split at ","
    pc,            \* position of main: getip, lookup, poll, write, rename, links, links2, exit,
                   \* fatal, crashed, crashedlinks
    clientIp,      \* the global clientIp
    cur,           \* index into productIds of the product being processed
    sess,          \* per product: notstarted, active, done, failed
    filename,      \* getProduct locals
    filePath,
    oldDigest,
    challenge,
    attempts,
    uncompressed,
    err,           \* the error the last call of getProduct / getClientIp returned
    req,           \* the last request handed to download
    reply,         \* what download got for it
    fs,            \* regular files: path -> content
    symlinks,      \* legacy links made by main
    pre,           \* history: fs when the current session started
    polls,         \* history: polls issued by the current session
    lastDecoded    \* history: content decoded from the last accepted gzip reply

locals == <<filename, filePath, oldDigest, challenge, attempts, uncompressed>>
hist == <<pre, polls, lastDecoded>>
vars == <<ids, pc, clientIp, cur, sess, filename, filePath, oldDigest, challenge,
          attempts, uncompressed, err, req, reply, fs, symlinks, pre, polls,
          lastDecoded>>

----------------------------------------------------------------------------
(* Bounds of the model *)

\* longest decompressed payload the server sends
MaxLen == 2

----------------------------------------------------------------------------
(* Flags (defaults of the var block, shortened where only identity matters) *)

directory == <<"/", "d">>
userId == <<"9">>
licenseKey == <<"0", "0">>
productIds == <<"506", "533", "517">>
dolinks == TRUE

----------------------------------------------------------------------------
(* Sequences *)

HasPrefix(s, p) == Len(s) >= Len(p) /\ SubSeq(s, 1, Len(p)) = p

RECURSIVE SeqsUpTo(_, _)
SeqsUpTo(S, n) ==
    IF n = 0 THEN {<<>>}
    ELSE LET shorter == SeqsUpTo(S, n - 1)
         IN  shorter \cup {Append(s, x) : s \in shorter, x \in S}

----------------------------------------------------------------------------
(* path.Base, path.Clean, path.Join *)

RECURSIVE StripTrailingSlashes(_)
StripTrailingSlashes(p) ==
    IF Len(p) > 0 /\ p[Len(p)] = "/"
    THEN StripTrailingSlashes(SubSeq(p, 1, Len(p) - 1))
    ELSE p

\* index of the last "/" of p, 0 when there is none
RECURSIVE LastSlash(_)
LastSlash(p) ==
    IF Len(p) = 0 THEN 0
    ELSE IF p[Len(p)] = "/" THEN Len(p)
    ELSE LastSlash(SubSeq(p, 1, Len(p) - 1))

Base(p) ==
    IF p = <<>> THEN <<".">>
    ELSE LET q == StripTrailingSlashes(p)
             r == SubSeq(q, LastSlash(q) + 1, Len(q))
         IN  IF r = <<>> THEN <<"/">> ELSE r

\* the "/"-separated elements of p, empty ones included
RECURSIVE Split(_)
Split(p) ==
    LET i == LastSlash(p)
    IN  IF i = 0 THEN <<p>>
        ELSE Append(Split(SubSeq(p, 1, i - 1)), SubSeq(p, i + 1, Len(p)))

\* Clean's element stack: "." and "" dropped, ".." pops or is dropped at the
\* root or is kept at the front of a relative path
RECURSIVE CleanElems(_, _, _)
CleanElems(elems, stack, rooted) ==
    IF elems = <<>> THEN stack
    ELSE LET e == Head(elems)
             rest == Tail(elems)
         IN  IF e = <<>> \/ e = <<".">> THEN CleanElems(rest, stack, rooted)
             ELSE IF e = <<".", ".">> THEN
                 IF Len(stack) > 0 /\ stack[Len(stack)] # <<".", ".">>
                 THEN CleanElems(rest, SubSeq(stack, 1, Len(stack) - 1), rooted)
                 ELSE IF rooted THEN CleanElems(rest, stack, rooted)
                 ELSE CleanElems(rest, Append(stack, e), rooted)
             ELSE CleanElems(rest, Append(stack, e), rooted)

RECURSIVE JoinElems(_)
JoinElems(elems) ==
    IF elems = <<>> THEN <<>>
    ELSE IF Len(elems) = 1 THEN elems[1]
    ELSE elems[1] \o <<"/">> \o JoinElems(Tail(elems))

Clean(p) ==
    IF p = <<>> THEN <<".">>
    ELSE LET rooted == p[1] = "/"
             out == JoinElems(CleanElems(Split(p), <<>>, rooted))
         IN  IF rooted THEN <<"/">> \o out
             ELSE IF out = <<>> THEN <<".">> ELSE out

\* path.Join of two elements
Join(a, b) ==
    IF Len(a) + Len(b) = 0 THEN <<>>
    ELSE IF a = <<>> THEN Clean(b)
    ELSE Clean(a \o <<"/">> \o b)

----------------------------------------------------------------------------
(* Digests.  md5 is taken to be collision free on the data of the model:   *)
(* the digest of d is d under a tag, never the sentinel.                   *)

Sentinel == <<"00000000000000000000000000000000">>

md5Hex(data) == <<"md5">> \o data

\* md5File: readable says whether ioutil.ReadFile succeeds on an existing file
md5FileOfNothing(files, fn, readable) ==
    IF fn \in DOMAIN files /\ readable THEN md5Hex(files[fn]) ELSE md5Hex(<<>>)

md5File(files, fn, readable) ==
    IF fn \in DOMAIN files /\ readable THEN md5Hex(files[fn]) ELSE Sentinel

----------------------------------------------------------------------------
(* Transport: download *)

\* status codes a reply may carry: both edges of the success band and the
\* codes next to them
Statuses == {199, 200, 209, 210}

\* (variant: the whole 2xx class counts as success)
isSuccessAny2xx(statusCode) == statusCode >= 200 /\ statusCode <= 299

isSuccess(statusCode) == statusCode >= 200 /\ statusCode <= 209

\* http.Get failed: download calls log.Fatal and never returns
SendFailed == [sent |-> FALSE, status |-> 0, readOK |-> FALSE, data |-> <<>>]

\* What download can come back with for a request whose body is one of
\* bodies: the response with the data read, or the response with nil data
\* and the error of ioutil.ReadAll.
download(bodies) ==
    {SendFailed}
    \cup {[sent |-> TRUE, status |-> st, readOK |-> TRUE, data |-> b] :
              st \in Statuses, b \in bodies}
    \cup {[sent |-> TRUE, status |-> st, readOK |-> FALSE, data |-> <<>>] :
              st \in Statuses}

\* before the first request: no reply yet (told apart from SendFailed)
NoReply == [sent |-> FALSE, status |-> 0, readOK |-> FALSE, data |-> <<"-">>]

Request(path, product, digest, chal) ==
    [path |-> path, product |-> product, db_md5 |-> digest,
     challenge_md5 |-> chal,
     user_id |-> IF path = "/app/update_secure" THEN userId ELSE <<>>]

NoReq == Request("", "", <<>>, <<>>)

----------------------------------------------------------------------------
(* Errors *)

NoErr == [kind |-> "nil", status |-> 0]
Err(kind) == [kind |-> kind, status |-> 0]
\* errors.New("Status " + response.Status + " received")
StatusErr(code) == [kind |-> "status", status |-> code]

----------------------------------------------------------------------------
(* Bodies the update service may send *)

NoUpdateMarker ==
    <<"N", "o", " ", "n", "e", "w", " ", "u", "p", "d", "a", "t", "e", "s",
      " ", "a", "v", "a", "i", "l", "a", "b", "l", "e">>

GzipMagic == <<"1f", "8b">>

\* decompressed payloads: they differ in length
Contents == SeqsUpTo({"A"}, MaxLen)

\* compress/gzip, reduced to what getProduct depends on: a member is the
\* magic, the compression method ("08" is deflate, the only one NewReader
\* accepts), the data, and "EOS" for the end of the stream and its trailer.
GzipEncode(content) == GzipMagic \o <<"08">> \o content \o <<"EOS">>

\* gzip.NewReader returns without error
NewReaderOK(data) ==
    Len(data) >= 3 /\ HasPrefix(data, GzipMagic) /\ data[3] = "08"

\* first index >= i of data holding "EOS", 0 when there is none
RECURSIVE FindEOS(_, _)
FindEOS(data, i) ==
    IF i > Len(data) THEN 0
    ELSE IF data[i] = "EOS" THEN i
    ELSE FindEOS(data, i + 1)

\* ioutil.ReadAll(gzr): the bytes read, and whether the stream ended well.
\* The reader is multistream: after the end of a member it is at the end of
\* the input, or it reads the header of a further member, whose data follows
\* on; anything else after a member is an error, as is a stream that stops
\* before its end.  The bytes read up to the error are returned with it.
RECURSIVE GzipReadAll(_)

\* (variant: a stream that ends early is taken as complete)
GzipReadAllLenient(data) ==
    LET e == FindEOS(data, 4)
    IN  IF e = 0 THEN [data |-> SubSeq(data, 4, Len(data)), ok |-> TRUE]
        ELSE [data |-> SubSeq(data, 4, e - 1), ok |-> TRUE]

GzipReadAll(data) ==
    LET e == FindEOS(data, 4)
    IN  IF e = 0 THEN [data |-> SubSeq(data, 4, Len(data)), ok |-> FALSE]
        ELSE LET head == SubSeq(data, 4, e - 1)
                 rest == SubSeq(data, e + 1, Len(data))
             IN  IF rest = <<>> THEN [data |-> head, ok |-> TRUE]
                 ELSE IF ~NewReaderOK(rest) THEN [data |-> head, ok |-> FALSE]
                 ELSE [data |-> head \o GzipReadAll(rest).data,
                       ok |-> GzipReadAll(rest).ok]

IpBodies == {<<"1">>, <<>>}

\* file names the service may assign: one with a directory part, and none
FilenameBodies == {<<"x", "/", "a">>, <<>>}

PollBodies ==
    {NoUpdateMarker, NoUpdateMarker \o <<"!">>}
    \cup {<<>>, <<"1f">>, <<"N", "o">>}
    \cup {GzipEncode(c) : c \in Contents}
    \cup {GzipMagic \o <<"00", "A", "EOS">>, GzipMagic \o <<"08", "A">>}
    \cup {GzipEncode(<<"A">>) \o <<"X">>,
          GzipEncode(<<"A">>) \o GzipEncode(<<"A">>)}

----------------------------------------------------------------------------
(* File system *)

Put(files, name, data) ==
    [p \in DOMAIN files \cup {name} |-> IF p = name THEN data ELSE files[p]]

Remove(files, name) == [p \in DOMAIN files \ {name} |-> files[p]]

\* the directories of the model: the destination directory and the root
IsDir(p) == p = directory \/ p = <<"/">>

\* ioutil.WriteFile(name, data, 0644): the file system after it and whether
\* it returned nil.  A failure leaves the file system alone (the open
\* failed) or leaves any prefix of data in the file.
WriteFile(files, name, data) ==
    IF IsDir(name) THEN {[fs |-> files, ok |-> FALSE]}
    ELSE {[fs |-> Put(files, name, data), ok |-> TRUE],
          [fs |-> files, ok |-> FALSE]}
         \cup {[fs |-> Put(files, name, SubSeq(data, 1, k)), ok |-> FALSE] :
                   k \in 0..Len(data)}

\* os.Rename(old, new): atomic; fails, changing nothing, or replaces new
Rename(files, old, new) ==
    {[fs |-> files, ok |-> FALSE]}
    \cup IF old \in DOMAIN files /\ ~IsDir(new)
         THEN {[fs |-> Put(Remove(files, old), new, files[old]), ok |-> TRUE]}
         ELSE {}

OldContent == <<"O", "L", "D">>

NoFiles == [p \in {} |-> <<>>]

\* the destination directory before the run: empty, or holding the file of
\* an earlier run
InitFiles ==
    {NoFiles, Put(NoFiles, Join(directory, <<"a">>), OldContent)}

----------------------------------------------------------------------------
(* getClientIp, updateSecure and the body of getProduct's loop *)

MaxAttempts == 5

\* the error getClientIp returns for what download came back with
getClientIpErrAnyStatus(r) ==
    IF ~r.readOK THEN Err("read") ELSE NoErr

getClientIpErr(r) ==
    IF ~r.readOK THEN Err("read")
    ELSE IF ~isSuccess(r.status) THEN StatusErr(r.status)
    ELSE NoErr

\* the error of getProduct's file name lookup
getFilenameErr(r) ==
    IF ~r.readOK THEN Err("read")
    ELSE IF ~isSuccess(r.status) THEN StatusErr(r.status)
    ELSE NoErr

\* updateSecure: the status is looked at first, then data and the read error
\* are handed on
updateSecure(r) ==
    IF ~isSuccess(r.status) THEN [data |-> <<>>, err |-> StatusErr(r.status)]
    ELSE [data |-> r.data, err |-> IF r.readOK THEN NoErr ELSE Err("read")]

IsNoUpdate(data) == HasPrefix(data, NoUpdateMarker)

\* (variant: only the first magic byte is tested)
IsGzipFirstByte(data) == HasPrefix(data, <<"1f">>)

IsGzip(data) == HasPrefix(data, GzipMagic)

\* (variant: every "No new updates available" breaks out to publish)
HaveUpdateAlways(unc) == TRUE

\* len(uncompressed) > 0
HaveUpdate(unc) == Len(unc) > 0

\* (variant: the bound is tested one round late)
TooManyAttemptsLate(n) == n > MaxAttempts + 1

\* attempts > 5, after attempts++
TooManyAttempts(n) == n > MaxAttempts

\* (variant: what was read is appended to the earlier payload)
AssignUncompressedAppend(unc, read) == unc \o read

\* uncompressed, err = ioutil.ReadAll(gzr): what was read replaces uncompressed
AssignUncompressed(unc, read) == read

\* (variant: the digest is left as it was)
NewDigestStale(dig, unc) == dig

\* oldDigest = hex of md5 of uncompressed, replacing the digest held
NewDigest(dig, unc) == md5Hex(unc)

\* One pass of the for loop on the data of a poll that updateSecure returned
\* without error: ctl is what the pass ends with (continue the loop, break
\* out of it to publish, return err), the rest are the locals after it.
loopBody(data, att, unc, dig) ==
    LET keep == [ctl |-> "return", err |-> NoErr, attempts |-> att,
                 uncompressed |-> unc, oldDigest |-> dig]
    IN  IF IsNoUpdate(data) THEN
            IF HaveUpdate(unc) THEN [keep EXCEPT !.ctl = "break"]
            ELSE keep
        ELSE IF ~IsGzip(data) THEN [keep EXCEPT !.err = Err("notgzip")]
        ELSE IF TooManyAttempts(att + 1) THEN
            [keep EXCEPT !.err = Err("toomany"), !.attempts = att + 1]
        ELSE IF ~NewReaderOK(data) THEN
            [keep EXCEPT !.err = Err("gzipheader"), !.attempts = att + 1]
        ELSE LET rd == GzipReadAll(data)
                 unc2 == AssignUncompressed(unc, rd.data)
             IN  IF ~rd.ok THEN
                     [keep EXCEPT !.err = Err("gzipread"),
                                  !.attempts = att + 1,
                                  !.uncompressed = unc2]
                 ELSE [ctl |-> "continue", err |-> NoErr,
                       attempts |-> att + 1, uncompressed |-> unc2,
                       oldDigest |-> NewDigest(dig, unc2)]

\* hasher.Write(licenseKey); hasher.Write(clientIp)
computeChallengeSwapped(key, ip) == md5Hex(ip \o key)

computeChallenge(key, ip) == md5Hex(key \o ip)

\* (variant: the payload is written straight to the target)
TmpPathInPlace(path) == path

\* tmpFilePath := filePath + ".tmp"
TmpPath(path) == path \o <<".", "t", "m", "p">>

----------------------------------------------------------------------------
(* The run *)

\* the state of a run of the ids given, over the files given
Start(idList, files) ==
    /\ ids = idList
    /\ pc = "getip"
    /\ clientIp = <<>>
    /\ cur = 1
    /\ sess = [i \in 1..Len(idList) |-> "notstarted"]
    /\ filename = <<>>
    /\ filePath = <<>>
    /\ oldDigest = <<>>
    /\ challenge = <<>>
    /\ attempts = 0
    /\ uncompressed = <<>>
    /\ err = NoErr
    /\ req = NoReq
    /\ reply = NoReply
    /\ fs = files
    /\ symlinks = {}
    /\ pre = files
    /\ polls = 0
    /\ lastDecoded = <<>>

\* a run of the default product ids
Init == \E files \in InitFiles : Start(productIds, files)

\* a run of one product id
InitOne == \E files \in InitFiles : Start(<<"506">>, files)

\* a run of two product ids
InitTwo == \E files \in InitFiles : Start(<<"506", "533">>, files)

\* (variant: the loop steps over an id)
NextIndexSkip(i) == i + 2

\* (variant: the loop stays at the id and runs it again)
NextIndexStay(i) == i

\* for _, p := range strings.Split(*productIds, ",")
NextIndex(i) == i + 1

\* main after getProduct returned: the range loop moves to the next id
AfterProduct(i) == IF NextIndex(i) > Len(ids) THEN "links" ELSE "lookup"

\* getProduct returns e for product cur
Return(e) ==
    /\ sess' = [sess EXCEPT ![cur] = IF e = NoErr THEN "done" ELSE "failed"]
    /\ err' = e
    /\ pc' = AfterProduct(cur)
    /\ cur' = NextIndex(cur)

\* log.Fatal in download: the process exits inside the request
Fatal ==
    /\ pc' = "fatal"
    /\ UNCHANGED <<cur, err>>

\* main: getClientIp, log.Fatalf when it fails
GetClientIp ==
    /\ pc = "getip"
    /\ \E r \in download(IpBodies) :
        /\ req' = Request("/app/update_getipaddr", "", <<>>, <<>>)
        /\ reply' = r
        /\ IF ~r.sent THEN
               /\ pc' = "fatal"
               /\ UNCHANGED <<clientIp, err>>
           ELSE IF getClientIpErr(r) # NoErr THEN
               /\ pc' = "fatal"
               /\ err' = getClientIpErr(r)
               /\ UNCHANGED clientIp
           ELSE
               /\ clientIp' = r.data
               /\ err' = NoErr
               /\ pc' = IF Len(ids) = 0 THEN "links" ELSE "lookup"
    /\ UNCHANGED <<ids, cur, sess, locals, fs, symlinks, hist>>

\* getProduct up to the loop: the file name lookup, the local digest and the
\* challenge
GetFilename ==
    /\ pc = "lookup"
    /\ \E r \in download(FilenameBodies), readable \in BOOLEAN :
        /\ req' = Request("/app/update_getfilename", ids[cur], <<>>, <<>>)
        /\ reply' = r
        /\ IF ~r.sent THEN
               /\ Fatal
               /\ sess' = [sess EXCEPT ![cur] = "active"]
               /\ filename' = <<>> /\ filePath' = <<>> /\ oldDigest' = <<>>
               /\ challenge' = <<>>
           ELSE IF getFilenameErr(r) # NoErr THEN
               /\ Return(getFilenameErr(r))
               /\ filename' = <<>> /\ filePath' = <<>> /\ oldDigest' = <<>>
               /\ challenge' = <<>>
           ELSE
               /\ filename' = Base(r.data)
               /\ filePath' = Join(directory, filename')
               /\ oldDigest' = md5File(fs, filePath', readable)
               /\ challenge' = computeChallenge(licenseKey, clientIp)
               /\ sess' = [sess EXCEPT ![cur] = "active"]
               /\ err' = NoErr
               /\ pc' = "poll"
               /\ UNCHANGED cur
    /\ attempts' = 0
    /\ uncompressed' = <<>>
    /\ pre' = fs
    /\ polls' = 0
    /\ lastDecoded' = <<>>
    /\ UNCHANGED <<ids, clientIp, fs, symlinks>>

\* one round of the loop: updateSecure and what the loop does with its data
Poll ==
    /\ pc = "poll"
    /\ \E r \in download(PollBodies) :
        /\ req' = Request("/app/update_secure", ids[cur], oldDigest, challenge)
        /\ reply' = r
        /\ IF ~r.sent THEN
               /\ Fatal
               /\ UNCHANGED <<sess, attempts, uncompressed, oldDigest, lastDecoded>>
           ELSE IF updateSecure(r).err # NoErr THEN
               /\ Return(updateSecure(r).err)
               /\ UNCHANGED <<attempts, uncompressed, oldDigest, lastDecoded>>
           ELSE LET b == loopBody(updateSecure(r).data, attempts, uncompressed,
                                  oldDigest)
                IN  /\ attempts' = b.attempts
                    /\ uncompressed' = b.uncompressed
                    /\ oldDigest' = b.oldDigest
                    /\ lastDecoded' = IF b.ctl = "continue"
                                      THEN GzipReadAll(r.data).data
                                      ELSE lastDecoded
                    /\ IF b.ctl = "return" THEN Return(b.err)
                       ELSE /\ pc' = IF b.ctl = "break" THEN "write" ELSE "poll"
                            /\ UNCHANGED <<cur, sess, err>>
    /\ polls' = polls + 1
    /\ UNCHANGED <<ids, clientIp, filename, filePath, challenge, fs, symlinks, pre>>

\* ioutil.WriteFile(tmpFilePath, uncompressed, 0644)
WriteTmp ==
    /\ pc = "write"
    /\ \E w \in WriteFile(fs, TmpPath(filePath), uncompressed) :
        /\ fs' = w.fs
        /\ IF w.ok THEN /\ pc' = "rename"
                        /\ UNCHANGED <<cur, sess, err>>
           ELSE Return(Err("write"))
    /\ UNCHANGED <<ids, clientIp, locals, req, reply, symlinks, hist>>

\* os.Rename(tmpFilePath, filePath)
RenameTmp ==
    /\ pc = "rename"
    /\ \E w \in Rename(fs, TmpPath(filePath), filePath) :
        /\ fs' = w.fs
        /\ Return(IF w.ok THEN NoErr ELSE Err("rename"))
    /\ UNCHANGED <<ids, clientIp, locals, req, reply, symlinks, hist>>

\* the process dies while publishing: inside WriteFile, leaving the staging
\* file as a failed write would, or between WriteFile and Rename
Crash ==
    \/ /\ pc \in {"write", "rename"}
       /\ pc' = "crashed"
       /\ IF pc = "write"
          THEN \E w \in WriteFile(fs, TmpPath(filePath), uncompressed) :
                   ~w.ok /\ fs' = w.fs
          ELSE fs' = fs
       /\ UNCHANGED <<ids, clientIp, cur, sess, locals, err, req, reply,
                      symlinks, hist>>
    \/ /\ pc = "links2"
       /\ pc' = "crashedlinks"
       /\ UNCHANGED <<ids, clientIp, cur, sess, locals, err, req, reply, fs,
                      symlinks, hist>>

\* the legacy names main links, in the order of its two calls
LegacyLinks == <<<<"GeoIPCity.dat">>, <<"GeoIP.dat">>>>

\* os.Symlink(old, Join(directory, l)): the link sets it can leave.  The call
\* can fail (the name is taken, the directory is missing or not writable)
\* and main drops its error.
Symlink(links, l) ==
    {links} \cup (IF Join(directory, l) \notin DOMAIN fs /\ l \notin links
                  THEN {links \cup {l}} ELSE {})

\* the first os.Symlink of main, or nothing when links are not asked for
MakeLinkCity ==
    /\ pc = "links"
    /\ IF dolinks
       THEN /\ symlinks' \in Symlink(symlinks, LegacyLinks[1])
            /\ pc' = "links2"
       ELSE /\ symlinks' = symlinks
            /\ pc' = "exit"
    /\ UNCHANGED <<ids, clientIp, cur, sess, locals, err, req, reply, fs, hist>>

\* the second os.Symlink of main
MakeLinkCountry ==
    /\ pc = "links2"
    /\ symlinks' \in Symlink(symlinks, LegacyLinks[2])
    /\ pc' = "exit"
    /\ UNCHANGED <<ids, clientIp, cur, sess, locals, err, req, reply, fs, hist>>

Next ==
    \/ GetClientIp
    \/ GetFilename
    \/ Poll
    \/ WriteTmp
    \/ RenameTmp
    \/ Crash
    \/ MakeLinkCity
    \/ MakeLinkCountry

Spec == Init /\ [][Next]_vars

SpecOne == InitOne /\ [][Next]_vars

SpecTwo == InitTwo /\ [][Next]_vars

\* getProduct is one thread that keeps running: the step of the session it
\* is at is taken, unless the process dies first
FairSpecOne ==
    /\ SpecOne
    /\ WF_vars(Poll)
    /\ WF_vars(WriteTmp)
    /\ WF_vars(RenameTmp)

----------------------------------------------------------------------------
(* Vocabulary of the properties *)

\* getProduct has just returned for product cur - 1: err is what it returned,
\* the locals, req and reply are as it left them
JustReturned == pc \in {"lookup", "links"} /\ cur > 1

PollReq == req.path = "/app/update_secure"

\* the last request got a reply with a status of the success band and its
\* body was read in full
GoodReply == reply.sent /\ reply.readOK /\ reply.status \in 200..209

NoUpdateReply ==
    PollReq /\ GoodReply /\ HasPrefix(reply.data, NoUpdateMarker)

GzipReply ==
    /\ PollReq /\ GoodReply
    /\ ~HasPrefix(reply.data, NoUpdateMarker)
    /\ HasPrefix(reply.data, GzipMagic)

MalformedReply ==
    /\ PollReq /\ GoodReply
    /\ ~HasPrefix(reply.data, NoUpdateMarker)
    /\ ~HasPrefix(reply.data, GzipMagic)

\* the target path holds in f what it holds in g, or is absent in both
TargetSame(f, g) ==
    /\ filePath \in DOMAIN f <=> filePath \in DOMAIN g
    /\ filePath \in DOMAIN f => f[filePath] = g[filePath]

\* the target path holds exactly data
TargetHolds(data) == filePath \in DOMAIN fs /\ fs[filePath] = data

\* the session that returned ended with k accepted gzip replies and then
\* "No new updates available"
GzipThenNoUpdate == JustReturned /\ NoUpdateReply /\ polls \in 2..6

----------------------------------------------------------------------------
(* C1 *)

\* C1 as stated: a session whose poll replies are k gzip payloads
\* (1 <= k <= 5) and then NoUpdate ends in Done with the target holding the
\* decompressed content of the k-th payload, after exactly k attempts (read
\* here for a target that is a file of the directory).
C1_AsStated ==
    (GzipThenNoUpdate /\ ~IsDir(filePath)) =>
        /\ sess[cur - 1] = "done"
        /\ TargetHolds(lastDecoded)
        /\ attempts = polls - 1

\* C1 amended: such a session has made exactly k attempts; when the k-th
\* payload decompressed to at least one byte and both publish steps
\* succeeded it ends in Done with the target holding exactly the content of
\* the k-th payload and the staging file gone; when the k-th payload
\* decompressed to no bytes it ends in Done with no file written; otherwise
\* it ends in Failed with the error of the publish step that failed.
C1_LatestPayloadPublished ==
    GzipThenNoUpdate =>
        /\ attempts = polls - 1
        /\ uncompressed = lastDecoded
        /\ (lastDecoded # <<>> /\ err = NoErr) =>
               /\ sess[cur - 1] = "done"
               /\ TargetHolds(lastDecoded)
               /\ TmpPath(filePath) \notin DOMAIN fs
        /\ lastDecoded = <<>> =>
               /\ sess[cur - 1] = "done"
               /\ err = NoErr
               /\ fs = pre
        /\ err # NoErr =>
               /\ sess[cur - 1] = "failed"
               /\ err.kind \in {"write", "rename"}
               /\ lastDecoded # <<>>

\* two gzip rounds and NoUpdate, the second payload published over the old file
C1_Witness ==
    /\ GzipThenNoUpdate
    /\ polls = 3
    /\ attempts = 2
    /\ sess[cur - 1] = "done"
    /\ filePath \in DOMAIN pre
    /\ pre[filePath] = OldContent
    /\ TargetHolds(lastDecoded)
    /\ lastDecoded # <<>>

----------------------------------------------------------------------------
(* C2 *)

\* C2: on NoUpdate the payload goes to the publish step exactly when it is
\* not empty: the write step is only ever entered with a non-empty payload,
\* a session that returned on NoUpdate with a non-empty payload went through
\* the publish step, and one that returned on NoUpdate with an empty payload
\* (a first-poll NoUpdate in particular) returned nil and left every file,
\* the staging file and the target included, as it was.
C2_PublishIffPayload ==
    /\ pc = "poll" => fs = pre
    /\ pc \in {"write", "rename"} => NoUpdateReply /\ Len(uncompressed) > 0
    /\ (JustReturned /\ NoUpdateReply /\ Len(uncompressed) > 0) =>
           \/ err = NoErr /\ TargetHolds(uncompressed)
           \/ err.kind \in {"write", "rename"}
    /\ (JustReturned /\ NoUpdateReply /\ Len(uncompressed) = 0) =>
           /\ sess[cur - 1] = "done"
           /\ err = NoErr
           /\ fs = pre
    /\ (JustReturned /\ NoUpdateReply /\ polls = 1) =>
           /\ sess[cur - 1] = "done"
           /\ err = NoErr
           /\ fs = pre
           /\ uncompressed = <<>>

\* first poll NoUpdate over an installed file: Done, nothing touched
C2_Witness ==
    /\ JustReturned /\ NoUpdateReply /\ polls = 1
    /\ sess[cur - 1] = "done"
    /\ filePath \in DOMAIN fs
    /\ fs = pre
    /\ TmpPath(filePath) \notin DOMAIN fs

----------------------------------------------------------------------------
(* C3 *)

\* C3: a session that got a sixth gzip-prefixed reply has returned the "too
\* many attempts" error; the sixth payload was not decompressed (the payload
\* and the digest are still those of the fifth) and no file was written.
C3_SixthGzipFails ==
    (JustReturned /\ GzipReply /\ polls = 6) =>
        /\ sess[cur - 1] = "failed"
        /\ err = Err("toomany")
        /\ attempts = 6
        /\ uncompressed = lastDecoded
        /\ oldDigest = md5Hex(lastDecoded)
        /\ fs = pre

\* six gzip replies over an installed file, which is still the old one
C3_Witness ==
    /\ JustReturned /\ GzipReply /\ polls = 6
    /\ err = Err("toomany")
    /\ filePath \in DOMAIN fs
    /\ fs[filePath] = OldContent
    /\ NewReaderOK(reply.data)
    /\ GzipReadAll(reply.data).ok
    /\ GzipReadAll(reply.data).data # uncompressed

----------------------------------------------------------------------------
(* C4 *)

\* C4: in any round, a reply of success status whose body starts neither with
\* the NoUpdate marker nor with the gzip magic ends the session Failed with
\* the "not a gzip file" error, and no file was written: the target and the
\* staging file are as they were when the session started.
C4_MalformedFails ==
    (JustReturned /\ MalformedReply) =>
        /\ sess[cur - 1] = "failed"
        /\ err = Err("notgzip")
        /\ fs = pre
        /\ uncompressed = lastDecoded

\* a malformed reply in the third round, after two accepted payloads
C4_Witness ==
    /\ JustReturned /\ MalformedReply
    /\ polls = 3
    /\ uncompressed # <<>>
    /\ reply.data = <<"1f">>
    /\ sess[cur - 1] = "failed"
    /\ filePath \in DOMAIN fs
    /\ fs[filePath] = OldContent

----------------------------------------------------------------------------
(* C5 *)

\* the publish step of the session that returned was entered
Published == JustReturned /\ NoUpdateReply /\ Len(uncompressed) > 0

\* C5: while the payload is being published, after a crash inside or after
\* the staging write, and after a failed staging write or a failed rename,
\* the target holds what it held before the publish (or is still absent);
\* after a publish that returned nil it holds the complete payload; a failed
\* step is returned as an error.
C5_PublishAtomic ==
    /\ pc \in {"write", "rename", "crashed"} => TargetSame(fs, pre)
    /\ Published =>
           \/ /\ err = NoErr
              /\ sess[cur - 1] = "done"
              /\ TargetHolds(uncompressed)
           \/ /\ err.kind \in {"write", "rename"}
              /\ sess[cur - 1] = "failed"
              /\ TargetSame(fs, pre)

\* a crash between the staging write and the rename: the staging file holds
\* the payload, the target still the old file
C5_Witness ==
    /\ pc = "crashed"
    /\ TmpPath(filePath) \in DOMAIN fs
    /\ fs[TmpPath(filePath)] = uncompressed
    /\ uncompressed # <<>>
    /\ TargetHolds(OldContent)

----------------------------------------------------------------------------
(* C6 *)

\* the run is over by the program's own doing: main returned or log.Fatal
RunOver == pc \in {"exit", "fatal"}

\* C6 as stated: a Failed session hands its error to the caller, and in
\* every run every product after a failed one gets its session started.
C6_AsStated ==
    /\ \A i \in DOMAIN sess :
           (JustReturned /\ i = cur - 1 /\ sess[i] = "failed") => err # NoErr
    /\ RunOver =>
           \A i, j \in DOMAIN sess :
               (i < j /\ sess[i] = "failed") => sess[j] # "notstarted"

----------------------------------------------------------------------------
(* C7 *)

SessionReq == req.path \in {"/app/update_getfilename", "/app/update_secure"}

\* C7 as stated: when a request of a session cannot be sent, getProduct
\* returns an error for that product and the run goes on.
C7_AsStated ==
    (SessionReq /\ ~reply.sent) =>
        /\ pc # "fatal"
        /\ JustReturned
        /\ sess[cur - 1] = "failed"
        /\ err # NoErr

----------------------------------------------------------------------------
(* C8 *)

SessionLive == pc \in {"poll", "write", "rename"}

\* C8: wherever a session goes on polling or publishes, attempts is at most
\* 5; a session issues at most 6 polls; and, the process neither exiting in
\* download nor dying, a live session always comes to return.
C8_SessionBounded ==
    /\ [](/\ SessionLive => attempts <= 5
          /\ polls <= 6
          /\ attempts <= polls)
    /\ (SessionLive ~> (JustReturned \/ pc \in {"fatal", "crashed"}))

\* the longest session: five accepted payloads, NoUpdate on the sixth poll,
\* the fifth payload published
C8_Witness ==
    /\ JustReturned /\ NoUpdateReply
    /\ polls = 6
    /\ attempts = 5
    /\ sess[cur - 1] = "done"
    /\ TargetHolds(uncompressed)

----------------------------------------------------------------------------
(* C9 *)

BadStatus(r) == r.sent /\ r.status \notin 200..209

InBand(r) == r.sent /\ r.status \in 200..209

\* what every request does with a status of the success band: it goes on to
\* use the body, and no status error is returned
InBandStep ==
    /\ (pc = "getip" /\ InBand(reply') /\ reply'.readOK) =>
           pc' # "fatal" /\ clientIp' = reply'.data
    /\ (pc = "lookup" /\ InBand(reply') /\ reply'.readOK) =>
           pc' = "poll" /\ sess'[cur] = "active"
    /\ (pc = "poll" /\ InBand(reply')) => err'.kind # "status"

\* a poll with a status outside the band changes no payload, digest or file
BadPollStep ==
    (pc = "poll" /\ BadStatus(reply')) =>
        /\ err' = StatusErr(reply'.status)
        /\ sess'[cur] = "failed"
        /\ UNCHANGED <<uncompressed, oldDigest, attempts, fs>>

\* C9 as stated: a reply is successful exactly when its status is in
\* 200..209; any request with a status outside fails with the error that
\* carries the status, whatever the body.
C9_AsStated ==
    [][/\ InBandStep
       /\ BadPollStep
       /\ (pc = "getip" /\ BadStatus(reply')) =>
              pc' = "fatal" /\ err' = StatusErr(reply'.status)
       /\ (pc = "lookup" /\ BadStatus(reply')) =>
              /\ sess'[cur] = "failed"
              /\ err' = StatusErr(reply'.status)
              /\ fs' = fs]_vars

\* C9 amended: as stated, except that the client address request and the
\* file name lookup, when the body could not be read in full, fail with the
\* read error instead of the status error.
C9_StatusBand ==
    [][/\ InBandStep
       /\ BadPollStep
       /\ (pc = "getip" /\ BadStatus(reply')) =>
              /\ pc' = "fatal"
              /\ err' = IF reply'.readOK THEN StatusErr(reply'.status)
                        ELSE Err("read")
       /\ (pc = "lookup" /\ BadStatus(reply')) =>
              /\ sess'[cur] = "failed"
              /\ err' = IF reply'.readOK THEN StatusErr(reply'.status)
                        ELSE Err("read")
              /\ fs' = fs]_vars

\* status 210 with the NoUpdate marker as body, after an accepted payload:
\* the session failed with the status error and published nothing
C9_Witness ==
    /\ JustReturned /\ PollReq
    /\ reply.sent /\ reply.readOK /\ reply.status = 210
    /\ reply.data = NoUpdateMarker
    /\ err = StatusErr(210)
    /\ sess[cur - 1] = "failed"
    /\ uncompressed # <<>>
    /\ fs = pre

----------------------------------------------------------------------------
(* C10 *)

Finished(i) == sess[i] \in {"done", "failed"}

\* C10: sessions run one at a time in the order of the ids: a session that
\* has started has every earlier session finished, at most one session is
\* active, the publish steps belong to the active session, the last request
\* of a session is for a product whose predecessors are finished, and the
\* products before the current one are finished and those after it not
\* started.
C10_Sequential ==
    /\ \A i \in DOMAIN sess :
           sess[i] # "notstarted" => \A j \in 1..(i - 1) : Finished(j)
    /\ Cardinality({i \in DOMAIN sess : sess[i] = "active"}) <= 1
    /\ SessionLive => cur \in DOMAIN sess /\ sess[cur] = "active"
    /\ SessionReq =>
           \E i \in DOMAIN sess :
               /\ ids[i] = req.product
               /\ sess[i] # "notstarted"
               /\ \A j \in 1..(i - 1) : Finished(j)
    /\ \A i \in DOMAIN sess : i > cur => sess[i] = "notstarted"
    /\ \A i \in DOMAIN sess : i < cur => Finished(i)

\* the second product is publishing after the first failed
C10_Witness ==
    /\ Len(ids) = 2
    /\ sess[1] = "failed"
    /\ sess[2] = "active"
    /\ pc = "rename"
    /\ req.product = ids[2]

----------------------------------------------------------------------------
(* C11 *)

\* a step of getProduct for the entry cur: a request or a file write
SessionStep == pc \in {"lookup", "poll", "write", "rename"}

\* C11: a Failed entry stays Failed, the loop never goes back to an entry,
\* and every request and every file write of the run is made for an entry
\* that has not finished: no entry is taken up again after it failed.  A
\* request is repeated only as a poll of a session that is still live.
C11_NoRetry ==
    [][/\ \A i \in DOMAIN sess : Finished(i) => sess'[i] = sess[i]
       /\ cur' >= cur
       /\ SessionStep =>
              /\ cur \in DOMAIN sess
              /\ ~Finished(cur)
              /\ \A i \in DOMAIN sess : Finished(i) => i < cur
       /\ (pc \in {"lookup", "poll"} /\ reply'.sent) =>
              req'.product = ids[cur]
       /\ fs' # fs => pc \in {"write", "rename"}
       /\ (pc = "poll" /\ pc' = "poll") =>
              sess[cur] = "active" /\ polls' = polls + 1 /\ polls' <= 5]_vars

\* the second product polls again after the first one failed
C11_Witness ==
    /\ Len(ids) = 2
    /\ sess[1] = "failed"
    /\ sess[2] = "active"
    /\ pc = "poll"
    /\ polls = 2
    /\ req.product = ids[2]

----------------------------------------------------------------------------
(* C12 *)

\* the digest of the file the session found at its target when it started,
\* or the sentinel
StartDigests ==
    {Sentinel} \cup (IF filePath \in DOMAIN pre
                     THEN {<<"md5">> \o pre[filePath]} ELSE {})

\* the digest the session holds fits the payload it holds
DigestFresh ==
    /\ attempts = 0 => uncompressed = <<>> /\ oldDigest \in StartDigests
    /\ attempts > 0 => oldDigest = <<"md5">> \o uncompressed

\* C12: in every state in which a session is live the digest is that of the
\* local file (the sentinel when there is none) while no payload has been
\* accepted, and that of the latest accepted payload afterwards; every poll
\* sends the digest held; and a round that leaves the session live changes
\* payload and digest together, to the decoded payload and its digest.
C12_DigestNeverStale ==
    /\ [](SessionLive => DigestFresh)
    /\ [][/\ pc = "poll" =>
                 /\ req'.path = "/app/update_secure"
                 /\ req'.db_md5 = oldDigest
          /\ (pc = "poll" /\ pc' = "poll") =>
                 /\ attempts' = attempts + 1
                 /\ uncompressed' = GzipReadAll(reply'.data).data
                 /\ oldDigest' = <<"md5">> \o uncompressed'
          /\ (SessionLive /\ SessionLive' /\ pc' # "poll") =>
                 UNCHANGED <<uncompressed, oldDigest>>]_vars

\* the third poll of a session carries the digest of the second payload,
\* which differs from the first
C12_Witness ==
    /\ pc = "poll"
    /\ polls = 3
    /\ attempts = 3
    /\ req.db_md5 # oldDigest
    /\ req.db_md5 # Sentinel
    /\ oldDigest = <<"md5">> \o uncompressed
    /\ filePath \in DOMAIN pre

----------------------------------------------------------------------------
(* C13 *)

\* the digest of the license key followed by the client address
ChallengeOfRun == <<"md5">> \o licenseKey \o clientIp

\* C13: the client address is fetched by the first request of the run,
\* before any product, and no later step changes it; a session holds one
\* challenge, the digest of the license key followed by that address, from
\* its first poll to its end, and every poll sends exactly that challenge.
C13_ChallengeFixed ==
    /\ [](pc = "getip" =>
              /\ req = NoReq
              /\ \A i \in DOMAIN sess : sess[i] = "notstarted")
    /\ [](SessionLive => challenge = ChallengeOfRun)
    /\ [](PollReq => /\ req.challenge_md5 = ChallengeOfRun
                     /\ clientIp \in IpBodies)
    /\ [][/\ pc # "getip" => clientIp' = clientIp
          /\ pc = "getip" => pc' # "getip"
          /\ (SessionLive /\ SessionLive') => challenge' = challenge
          /\ pc = "poll" => req'.challenge_md5 = challenge]_vars

\* the second product polls a second time, with the challenge of the
\* address fetched at the start of the run
C13_Witness ==
    /\ Len(ids) = 2
    /\ sess[1] = "done"
    /\ cur = 2
    /\ pc = "poll"
    /\ polls = 2
    /\ PollReq
    /\ req.challenge_md5 = <<"md5", "0", "0", "1">>

----------------------------------------------------------------------------
(* C14 *)

\* the target paths the file name bodies lead to
TargetPaths == {Join(directory, Base(b)) : b \in FilenameBodies}

\* C14: for a target path whose file is missing or cannot be read the
\* digest of the file is the sentinel, never a failure; a session starts
\* with no round counted and an empty payload, with the sentinel as its
\* digest when the target is missing, and its first poll then sends the
\* sentinel.
C14_SentinelStart ==
    /\ [](\A p \in TargetPaths :
              /\ md5File(fs, p, FALSE) = Sentinel
              /\ p \notin DOMAIN fs => md5File(fs, p, TRUE) = Sentinel)
    /\ [][/\ (pc = "lookup" /\ pc' = "poll") =>
                 /\ attempts' = 0
                 /\ uncompressed' = <<>>
                 /\ err' = NoErr
                 /\ oldDigest' \in {Sentinel} \cup
                        (IF filePath' \in DOMAIN fs
                         THEN {<<"md5">> \o fs[filePath']} ELSE {})
          /\ (pc = "poll" /\ polls = 0 /\ filePath \notin DOMAIN fs) =>
                 req'.db_md5 = Sentinel]_vars

\* the first poll of a session whose target exists but could not be read
\* has carried the sentinel
C14_Witness ==
    /\ pc = "poll"
    /\ polls = 1
    /\ attempts = 1
    /\ filePath \in DOMAIN pre
    /\ PollReq
    /\ req.db_md5 = Sentinel

----------------------------------------------------------------------------
(* C15 *)

\* a file name proper: not empty, no separator, not "." and not ".."
IsPlainName(n) ==
    /\ Len(n) > 0
    /\ \A i \in 1..Len(n) : n[i] # "/"
    /\ n # <<".">>
    /\ n # <<".", ".">>

\* p names a file directly inside the destination directory
DirectlyInside(p) ==
    /\ Len(p) > Len(directory) + 1
    /\ SubSeq(p, 1, Len(directory)) = directory
    /\ p[Len(directory) + 1] = "/"
    /\ IsPlainName(SubSeq(p, Len(directory) + 2, Len(p)))

\* C15: whatever the body of the file name reply, the staging path and the
\* target path a session writes and renames are files directly inside the
\* destination directory, and so is every file there is.
C15_AsStated ==
    /\ pc \in {"write", "rename"} =>
           /\ DirectlyInside(filePath)
           /\ DirectlyInside(TmpPath(filePath))
    /\ \A p \in DOMAIN fs : DirectlyInside(p)

----------------------------------------------------------------------------
(* C16 *)

\* what a step changed in the files: the paths created or rewritten
Touched == {p \in DOMAIN fs' : p \notin DOMAIN fs \/ fs'[p] # fs[p]}

\* C16: the session is at its write or its rename only when its last poll
\* was answered NoUpdate and carried the digest of exactly the payload it
\* is publishing; files change only in those two steps, only at the staging
\* and the target path, and what is put there is that payload (the start of
\* it when a write fails part way).
C16_PublishConfirmed ==
    /\ [](pc \in {"write", "rename"} =>
              /\ NoUpdateReply
              /\ req.product = ids[cur]
              /\ req.db_md5 = <<"md5">> \o uncompressed
              /\ uncompressed = lastDecoded
              /\ polls >= 2)
    /\ [][fs' # fs =>
              /\ pc \in {"write", "rename"}
              /\ \A p \in Touched :
                     /\ p \in {TmpPath(filePath), filePath}
                     /\ HasPrefix(uncompressed, fs'[p])
                     /\ p = filePath => fs'[p] = uncompressed]_vars

\* a payload of two bytes, the second one accepted, has been published
\* after the NoUpdate reply to its digest
C16_Witness ==
    /\ Published
    /\ err = NoErr
    /\ polls = 3
    /\ uncompressed = <<"A", "A">>
    /\ TargetHolds(uncompressed)
    /\ req.db_md5 = <<"md5", "A", "A">>

----------------------------------------------------------------------------
(* C17 *)

\* d is one complete gzip member after another and nothing else
RECURSIVE IsMembers(_)
IsMembers(d) ==
    /\ Len(d) >= 3
    /\ HasPrefix(d, GzipMagic)
    /\ d[3] = "08"
    /\ \E e \in 4..Len(d) :
           /\ d[e] = "EOS"
           /\ \A i \in 4..(e - 1) : d[i] # "EOS"
           /\ e = Len(d) \/ IsMembers(SubSeq(d, e + 1, Len(d)))

\* a body with the gzip prefix that does not decompress: the header is cut
\* short or names no known method, the stream has no end, or something
\* that is not a further member follows it
Undecodable(d) == HasPrefix(d, GzipMagic) /\ ~IsMembers(d)

\* the poll just made was answered in full by an undecodable gzip body
UndecodableStep ==
    /\ pc = "poll"
    /\ InBand(reply')
    /\ reply'.readOK
    /\ Undecodable(reply'.data)

\* the session ends Failed, with the digest and the files as they were
FailsUntouched ==
    /\ sess'[cur] = "failed"
    /\ pc' \notin {"poll", "write", "rename"}
    /\ oldDigest' = oldDigest
    /\ fs' = fs

\* C17 as stated: in any round an undecodable gzip reply ends the session
\* Failed with the decompression error, digest and files untouched.
C17_AsStated ==
    [][UndecodableStep =>
           /\ FailsUntouched
           /\ err'.kind \in {"gzipheader", "gzipread"}]_vars

\* C17: an undecodable gzip reply ends the session Failed with the digest
\* not advanced and no file written in the session; the error is the
\* decompression error when the reply is one of the first five gzip replies
\* and the too-many-rounds error when it is the sixth, which is not
\* decompressed at all.
C17_DecodeFailure ==
    /\ [][UndecodableStep =>
              /\ FailsUntouched
              /\ attempts < 5 => err'.kind \in {"gzipheader", "gzipread"}
              /\ attempts >= 5 => err'.kind = "toomany"]_vars
    /\ [](JustReturned /\ err.kind \in {"gzipheader", "gzipread"} =>
              /\ fs = pre
              /\ polls = 1 => oldDigest \in StartDigests
              /\ polls > 1 => oldDigest = <<"md5">> \o lastDecoded)

\* a second gzip reply broke off after one byte: the session has failed,
\* the one byte is not the payload accepted before, whose digest is kept,
\* and no file has changed
C17_Witness ==
    /\ JustReturned
    /\ err.kind = "gzipread"
    /\ polls = 2
    /\ lastDecoded = <<"A", "A">>
    /\ uncompressed = <<"A">>
    /\ oldDigest = <<"md5", "A", "A">>
    /\ fs = pre

----------------------------------------------------------------------------
(* C18 *)

\* the request for the client address did not give an address
FetchFailed(r) == ~r.sent \/ ~r.readOK \/ r.status \notin 200..209

\* C18: when the request for the client address fails (it cannot be sent,
\* its body cannot be read, or its status is outside 200..209) the run is
\* over at once, with no address set, no product started, no request made
\* for a product and no file changed, and nothing happens after that; the
\* run goes on to the products only from an address reply that did not
\* fail, which sets the address, so every poll carries a challenge computed
\* from an address that was fetched, never from the unset one.
C18_StopsBeforeProducts ==
    /\ [][/\ (pc = "getip" /\ FetchFailed(reply')) =>
                 /\ pc' = "fatal"
                 /\ clientIp' = <<>>
                 /\ UNCHANGED <<sess, fs, symlinks>>
          /\ (pc = "getip" /\ pc' # "fatal") =>
                 /\ ~FetchFailed(reply')
                 /\ clientIp' = reply'.data
                 /\ pc' = "lookup"
          /\ pc # "fatal"
          /\ (SessionStep \/ fs' # fs) => req # NoReq]_vars
    /\ []((req.path = "/app/update_getipaddr" /\ FetchFailed(reply)) =>
              /\ pc = "fatal"
              /\ \A i \in DOMAIN sess : sess[i] = "notstarted"
              /\ fs = pre)
    /\ [](PollReq => req.challenge_md5 = <<"md5">> \o licenseKey \o clientIp)

\* the address request was answered with a status outside 200..209 and the
\* run has stopped with every product untouched
C18_Witness ==
    /\ pc = "fatal"
    /\ req.path = "/app/update_getipaddr"
    /\ BadStatus(reply)
    /\ reply.readOK
    /\ clientIp = <<>>
    /\ \A i \in DOMAIN sess : sess[i] = "notstarted"
    /\ fs = pre

====
